---- MODULE Spec2Model ----
(***************************************************************************)
(* Telemetry ingestion and threshold alerting of InsightHub.               *)
(*                                                                         *)
(* Three ingestion handlers live in the repository:                        *)
(*   express_ts  supabase/functions/ingest-sensor/index.ts (Express, TS)   *)
(*   express_js  unnamed/part_000                          (Express, JS)   *)
(*   edge        unnamed/part_003                          (Deno.serve)    *)
(* Each request is a sequence of steps separated by the handler's awaits;  *)
(* steps of different requests interleave.  The Identity Verifier, Asset   *)
(* Directory, Reading Store and Alert Store are external: every call to    *)
(* one of them ends in one of the outcomes its caller distinguishes        *)
(* (a result, a returned error, a thrown exception).                       *)
(***************************************************************************)
EXTENDS Integers, Sequences, FiniteSets, Bags, TLC

VARIABLES
    sensor_readings,  \* Reading Store: the rows of table sensor_readings
    alerts,           \* Alert Store: the batches inserted into table alerts
    req,              \* per in-flight request: the handler invocation's state
    arrivals,         \* number of requests received so far
    wide,             \* whether this run draws its inputs from the wide sets
    probe,            \* a validator/evaluator run on its own (SpecEval)
    ui                \* the browser application: session, route, Config page (SpecUi)

vars == <<sensor_readings, alerts, req, arrivals, wide, probe, ui>>

(***************************************************************************)
(* JavaScript values of a JSON payload field.  A number is an integer n,   *)
(* +Infinity / -Infinity (JSON.parse("1e999") is Infinity) or NaN; a field *)
(* may also be absent (undefined) or hold a string.                        *)
(***************************************************************************)
Num(n)    == [k |-> "num", n |-> n]
PosInf    == [k |-> "inf", n |-> 1]
NegInf    == [k |-> "inf", n |-> -1]
NaN       == [k |-> "nan", n |-> 0]
Undefined == [k |-> "undef", n |-> 0]
StrVal    == [k |-> "str", n |-> 0]

\* typeof v === 'number'
IsNumber(v) == v.k \in {"num", "inf", "nan"}

\* isNaN(v), for v a number
IsNaN(v) == v.k = "nan"

\* a < b on JavaScript numbers (false whenever an operand is NaN)
JsLt(a, b) ==
    /\ a.k # "nan"
    /\ b.k # "nan"
    /\ IF a.k = "inf" /\ b.k = "inf" THEN a.n < b.n
       ELSE IF a.k = "inf" THEN a.n < 0
       ELSE IF b.k = "inf" THEN b.n > 0
       ELSE a.n < b.n

\* variant: a >= b
JsGtOrEqual(a, b) == a.k # "nan" /\ b.k # "nan" /\ ~JsLt(a, b)

\* a > b on JavaScript numbers
JsGt(a, b) == JsLt(b, a)

(***************************************************************************)
(* ((x - bound) / bound) * 100 > 10 for x > bound, and                     *)
(* ((bound - x) / bound) * 100 > 10 for x < bound, as IEEE doubles compute *)
(* it.  diff is the positive difference (an integer, or +Infinity when x   *)
(* is infinite).  A positive difference divided by 0 is +Infinity, by a    *)
(* negative bound it is negative.  For integer operands the double result  *)
(* compares with 10 as the exact quotient does.                            *)
(***************************************************************************)
\* variant: exceedance >= 10
ExceedanceAtLeastTen(diff, bound) ==
    IF bound > 0 THEN (diff.k = "inf" \/ diff.n * 100 >= 10 * bound)
    ELSE IF bound = 0 THEN TRUE
    ELSE FALSE

ExceedanceOverTen(diff, bound) ==
    IF bound > 0 THEN (diff.k = "inf" \/ diff.n * 100 > 10 * bound)
    ELSE IF bound = 0 THEN TRUE
    ELSE FALSE

\* x - y for x a non-NaN number and y an integer
JsMinus(x, y) == IF x.k = "inf" THEN x ELSE Num(x.n - y)

\* y - x for x a non-NaN number and y an integer
JsMinusFrom(y, x) == IF x.k = "inf" THEN [k |-> "inf", n |-> -x.n] ELSE Num(y - x.n)

Metrics == <<"temperature", "pressure", "vibration", "energy_consumption">>

MetricSet == {Metrics[i] : i \in 1..4}

(***************************************************************************)
(* The asset_id field of a payload: a string, absent, or a non-string      *)
(* value such as the number 7.                                             *)
(***************************************************************************)
IdStr(s)    == [k |-> "str", s |-> s]
IdUndefined == [k |-> "undef", s |-> ""]
IdNumber    == [k |-> "num", s |-> ""]

\* !data.asset_id || typeof data.asset_id !== 'string'
BadAssetId(id) == id.k # "str" \/ id.s = ""

NoError == "null"

\* `Invalid ${field}`
InvalidField(field) ==
    CASE field = "temperature" -> "Invalid temperature"
      [] field = "pressure" -> "Invalid pressure"
      [] field = "vibration" -> "Invalid vibration"
      [] field = "energy_consumption" -> "Invalid energy_consumption"

\* typeof value !== 'number' || isNaN(value)
NotANumber(value) == ~IsNumber(value) \/ IsNaN(value)

\* the for loop over requiredFields: the first field that is no number, 0 if none
FirstBadField(data) ==
    IF \E i \in 1..4 : NotANumber(data[Metrics[i]])
    THEN CHOOSE i \in 1..4 :
            /\ NotANumber(data[Metrics[i]])
            /\ \A j \in 1..(i - 1) : ~NotANumber(data[Metrics[j]])
    ELSE 0

TempMin == -50
TempMax == 150

\* variant: the vibration rule is missing
RangeRulesNoVibration(data, msgs) ==
    IF JsLt(data.temperature, Num(TempMin)) \/ JsGt(data.temperature, Num(TempMax))
    THEN msgs[1]
    ELSE IF JsLt(data.pressure, Num(0)) THEN msgs[2]
    ELSE IF JsLt(data.energy_consumption, Num(0)) THEN msgs[4]
    ELSE NoError

\* the four range rules, given the reasons a handler words them with
RangeRules(data, msgs) ==
    IF JsLt(data.temperature, Num(TempMin)) \/ JsGt(data.temperature, Num(TempMax))
    THEN msgs[1]
    ELSE IF JsLt(data.pressure, Num(0)) THEN msgs[2]
    ELSE IF JsLt(data.vibration, Num(0)) THEN msgs[3]
    ELSE IF JsLt(data.energy_consumption, Num(0)) THEN msgs[4]
    ELSE NoError

\* validateSensorData shared shape: asset_id, then the fields, then the ranges
ValidateWith(data, msgs) ==
    IF BadAssetId(data.asset_id) THEN "Invalid asset_id"
    ELSE IF FirstBadField(data) # 0 THEN InvalidField(Metrics[FirstBadField(data)])
    ELSE RangeRules(data, msgs)

\* index.ts validateSensorData
validateSensorData(data) ==
    ValidateWith(data, <<"Temperature out of bounds", "Pressure must be >= 0",
                         "Vibration must be >= 0", "Energy must be >= 0">>)

\* part_000 validateSensorData
validateSensorData_js(data) ==
    ValidateWith(data, <<"Temperature must be between -50 and 150",
                         "Pressure must be non-negative",
                         "Vibration must be non-negative",
                         "Energy consumption must be non-negative">>)

\* variant: the edge function's validator lacks the vibration rule
validateSensorData_edge_noVibration(data) ==
    IF BadAssetId(data.asset_id) THEN "Invalid asset_id"
    ELSE IF FirstBadField(data) # 0 THEN InvalidField(Metrics[FirstBadField(data)])
    ELSE RangeRulesNoVibration(data,
             <<"Temperature must be between -50 and 150",
               "Pressure must be non-negative",
               "Vibration must be non-negative",
               "Energy consumption must be non-negative">>)

\* part_003 validateSensorData
validateSensorData_edge(data) ==
    ValidateWith(data, <<"Temperature must be between -50 and 150",
                         "Pressure must be non-negative",
                         "Vibration must be non-negative",
                         "Energy consumption must be non-negative">>)

(***************************************************************************)
(* Threshold evaluation (index.ts only).                                   *)
(***************************************************************************)
\* the label check() is called with for each metric
Label(metric) == IF metric = "energy_consumption" THEN "energy" ELSE metric

\* `${label}_high` and `${label}_low`
AlertType(label, dir) ==
    CASE label = "temperature" /\ dir = "high" -> "temperature_high"
      [] label = "temperature" /\ dir = "low" -> "temperature_low"
      [] label = "pressure" /\ dir = "high" -> "pressure_high"
      [] label = "pressure" /\ dir = "low" -> "pressure_low"
      [] label = "vibration" /\ dir = "high" -> "vibration_high"
      [] label = "vibration" /\ dir = "low" -> "vibration_low"
      [] label = "energy" /\ dir = "high" -> "energy_high"
      [] label = "energy" /\ dir = "low" -> "energy_low"

\* variant: the lesser severity is 'high'
Severity_high(diff, bound) == IF ExceedanceOverTen(diff, bound) THEN "critical" ELSE "high"

\* exceedance > 10 ? 'critical' : 'medium'
Severity(diff, bound) == IF ExceedanceOverTen(diff, bound) THEN "critical" ELSE "medium"

\* variant: the low-side test is a second if, not an else-if
check_bothSides(reading, assetId, metric, label, max, min) ==
    LET value == reading[metric] IN
    IF ~IsNumber(value) THEN <<>>
    ELSE (IF JsGt(value, Num(max)) THEN
            <<[asset_id |-> assetId,
               type |-> AlertType(label, "high"),
               severity |-> Severity(JsMinus(value, max), max),
               message |-> <<label, value, "exceeds max threshold", max>>,
               status |-> "active",
               created_at |-> "now"]>>
          ELSE <<>>)
         \o
         (IF JsLt(value, Num(min)) THEN
            <<[asset_id |-> assetId,
               type |-> AlertType(label, "low"),
               severity |-> Severity(JsMinusFrom(min, value), min),
               message |-> <<label, value, "below min threshold", min>>,
               status |-> "active",
               created_at |-> "now"]>>
          ELSE <<>>)

\* variant: the low-side exceedance is taken relative to max
check_lowOverMax(reading, assetId, metric, label, max, min) ==
    LET value == reading[metric] IN
    IF ~IsNumber(value) THEN <<>>
    ELSE IF JsGt(value, Num(max)) THEN
        <<[asset_id |-> assetId,
           type |-> AlertType(label, "high"),
           severity |-> Severity(JsMinus(value, max), max),
           message |-> <<label, value, "exceeds max threshold", max>>,
           status |-> "active",
           created_at |-> "now"]>>
    ELSE IF JsLt(value, Num(min)) THEN
        <<[asset_id |-> assetId,
           type |-> AlertType(label, "low"),
           severity |-> Severity(JsMinusFrom(min, value), max),
           message |-> <<label, value, "below min threshold", min>>,
           status |-> "active",
           created_at |-> "now"]>>
    ELSE <<>>

\* check(metric, label, max, min): the alerts it pushes (none or one)
check(reading, assetId, metric, label, max, min) ==
    LET value == reading[metric] IN
    IF ~IsNumber(value) THEN <<>>
    ELSE IF JsGt(value, Num(max)) THEN
        <<[asset_id |-> assetId,
           type |-> AlertType(label, "high"),
           severity |-> Severity(JsMinus(value, max), max),
           message |-> <<label, value, "exceeds max threshold", max>>,
           status |-> "active",
           created_at |-> "now"]>>
    ELSE IF JsLt(value, Num(min)) THEN
        <<[asset_id |-> assetId,
           type |-> AlertType(label, "low"),
           severity |-> Severity(JsMinusFrom(min, value), min),
           message |-> <<label, value, "below min threshold", min>>,
           status |-> "active",
           created_at |-> "now"]>>
    ELSE <<>>

\* variant: the energy check is called first
DraftAlerts_energyFirst(reading, asset) ==
    check(reading, asset.id, "energy_consumption", "energy",
          asset.energy_max, asset.energy_min)
    \o check(reading, asset.id, "temperature", "temperature",
             asset.temperature_max, asset.temperature_min)
    \o check(reading, asset.id, "pressure", "pressure",
             asset.pressure_max, asset.pressure_min)
    \o check(reading, asset.id, "vibration", "vibration",
             asset.vibration_max, asset.vibration_min)

\* the alerts array after the four check() calls of checkThresholdsAndCreateAlerts
DraftAlerts(reading, asset) ==
    check(reading, asset.id, "temperature", "temperature",
          asset.temperature_max, asset.temperature_min)
    \o check(reading, asset.id, "pressure", "pressure",
             asset.pressure_max, asset.pressure_min)
    \o check(reading, asset.id, "vibration", "vibration",
             asset.vibration_max, asset.vibration_min)
    \o check(reading, asset.id, "energy_consumption", "energy",
             asset.energy_max, asset.energy_min)

(***************************************************************************)
(* Asset Directory: the rows of table assets.  a-default is the            *)
(* envelope createDefaultAsset gives a new machine; the others are         *)
(* envelopes an administrator configured (negative and zero bounds, and a  *)
(* min above its max, are all rows the table can hold).                    *)
(***************************************************************************)
Envelope(id, tmin, tmax, pmin, pmax, vmin, vmax, emin, emax) ==
    [id |-> id,
     temperature_min |-> tmin, temperature_max |-> tmax,
     pressure_min |-> pmin, pressure_max |-> pmax,
     vibration_min |-> vmin, vibration_max |-> vmax,
     energy_min |-> emin, energy_max |-> emax]

createDefaultAsset == Envelope("a-default", -50, 150, 0, 200, 0, 5, 0, 1000)

AssetRows ==
    {createDefaultAsset,
     Envelope("a-press", 20, 85, 10, 20, 0, 5, 10, 20),
     Envelope("a-cold", -20, -10, 20, 10, 0, 0, 0, 10),
     Envelope("a-zero", 0, 40, 0, 0, 1, 5, 5, 5)}

AssetIds == {a.id : a \in AssetRows}

AssetById(id) == CHOOSE a \in AssetRows : a.id = id

MinOf(asset, metric) ==
    CASE metric = "temperature" -> asset.temperature_min
      [] metric = "pressure" -> asset.pressure_min
      [] metric = "vibration" -> asset.vibration_min
      [] metric = "energy_consumption" -> asset.energy_min

MaxOf(asset, metric) ==
    CASE metric = "temperature" -> asset.temperature_max
      [] metric = "pressure" -> asset.pressure_max
      [] metric = "vibration" -> asset.vibration_max
      [] metric = "energy_consumption" -> asset.energy_max


(***************************************************************************)
(* Inputs of the validator/evaluator runs of SpecEval.  The numeric values *)
(* of a metric lie on and outside the bounds of the asset's envelope, in   *)
(* steps of a tenth of the bound, so that both sides of the 10% rule and   *)
(* of the validator's range rules occur.                                   *)
(***************************************************************************)
MaxDelta == 2   \* steps a value lies outside an envelope bound
MaxOdd == 1     \* fields of one payload that hold no finite number / no id

Abs(n) == IF n < 0 THEN -n ELSE n

StepOf(b) == IF Abs(b) \div 10 > 0 THEN Abs(b) \div 10 ELSE 1

NumericCandidates(asset, metric) ==
    {Num(MinOf(asset, metric) - d * StepOf(MinOf(asset, metric))) : d \in 0..MaxDelta}
    \cup
    {Num(MaxOf(asset, metric) + d * StepOf(MaxOf(asset, metric))) : d \in 0..MaxDelta}

OddValues == {Undefined, StrVal, NaN, PosInf, NegInf}

OddIds == {IdUndefined, IdStr(""), IdNumber, IdStr("a-unknown")}

Payload(id, t, p, v, e, ts) ==
    [asset_id |-> id, temperature |-> t, pressure |-> p, vibration |-> v,
     energy_consumption |-> e, timestamp |-> ts]

IsOdd(x) == x \in OddValues \/ x \in OddIds

OddCount(r) ==
    Cardinality({f \in MetricSet \cup {"asset_id"} : IsOdd(r[f])})

ProbeReadings(asset) ==
    {r \in {Payload(id, t, p, v, e, "absent") :
              id \in {IdStr(asset.id)} \cup OddIds,
              t \in NumericCandidates(asset, "temperature") \cup OddValues,
              p \in NumericCandidates(asset, "pressure") \cup OddValues,
              v \in NumericCandidates(asset, "vibration") \cup OddValues,
              e \in NumericCandidates(asset, "energy_consumption") \cup OddValues} :
        OddCount(r) <= MaxOdd}

ProbeOff == [stage |-> "off"]

\* no browser application in this run
UiOff == [stage |-> "off"]

(***************************************************************************)
(* SpecEval: the validator and the threshold evaluator applied to one      *)
(* payload and one asset row.                                              *)
(***************************************************************************)
StoresEmpty ==
    /\ sensor_readings = <<>>
    /\ alerts = <<>>
    /\ arrivals = 0

InitEval ==
    /\ StoresEmpty
    /\ req = <<>>
    /\ wide = FALSE
    /\ ui = UiOff
    /\ \E asset \in AssetRows : \E r \in ProbeReadings(asset) :
          probe = [stage |-> "input", asset |-> asset, reading |-> r,
                   reason |-> NoError, drafts |-> <<>>]

\* const errorMsg = validateSensorData(reading); if (errorMsg) return 400
ProbeValidate ==
    /\ probe.stage = "input"
    /\ LET errorMsg == validateSensorData(probe.reading) IN
       probe' = [probe EXCEPT !.reason = errorMsg,
                              !.stage = IF errorMsg = NoError THEN "valid"
                                        ELSE "rejected"]
    /\ UNCHANGED <<sensor_readings, alerts, req, arrivals, wide, ui>>

\* the asset row of the reading's asset_id, and the four check() calls on it
ProbeEvaluate ==
    /\ probe.stage = "valid"
    /\ probe.reading.asset_id = IdStr(probe.asset.id)
    /\ probe' = [probe EXCEPT !.drafts = DraftAlerts(probe.reading, probe.asset),
                              !.stage = "evaluated"]
    /\ UNCHANGED <<sensor_readings, alerts, req, arrivals, wide, ui>>

NextEval == ProbeValidate \/ ProbeEvaluate

SpecEval == InitEval /\ [][NextEval]_vars

(***************************************************************************)
(* The ingestion handlers.                                                 *)
(***************************************************************************)
MaxRequests == 2       \* requests received in one run of Spec
MaxWideRequests == 1   \* requests received in one run of SpecWide

Slots == {1, 2}    \* handler invocations that can be in flight together

\* The Authorization header, as header.split(' ') sees it; <<>> when absent.
\* <<"Bearer", "", "jwt-valid">> is "Bearer  jwt-valid", with two spaces.
NoHeader == <<>>

HeaderSet ==
    {NoHeader, <<"Bearer">>, <<"Bearer", "", "jwt-valid">>, <<"Bearer", "jwt-valid">>,
     <<"Bearer", "jwt-expired">>, <<"Basic", "jwt-valid">>}

\* the credentials the Identity Verifier knows a user for
ValidTokens == {"jwt-valid"}

\* header?.split(' ')[1]   ("" also stands for undefined: both are falsy)
TokenOf(header) == IF Len(header) >= 2 THEN header[2] ELSE ""

\* authHeader?.startsWith('Bearer ')
StartsWithBearer(header) == Len(header) >= 2 /\ header[1] = "Bearer"

\* supabase.auth.getUser(token): { user } | { error } | a thrown exception
GetUserOutcomes(token) ==
    IF token \in ValidTokens THEN {"user", "error", "throw"} ELSE {"error", "throw"}

\* from('assets').select('*').eq('id', id).single(): a row, an error (also
\* when no row matches), or a thrown exception
AssetOutcomes(id) ==
    IF id \in AssetIds THEN {"row", "error", "throw"} ELSE {"error", "throw"}

\* from(table).insert(rows): written, an error, or a thrown exception
InsertOutcomes == {"ok", "error", "throw"}

IdleReq ==
    [pc |-> "idle", handler |-> "none", method |-> "none", header |-> NoHeader,
     token |-> "", body |-> <<>>, reason |-> NoError, asset |-> <<>>,
     drafts |-> <<>>, status |-> 0, text |-> "", headers |-> {}, row |-> 0,
     batch |-> 0, log |-> <<>>]

\* the payloads a client posts: the nominal reading of asset a-press with one
\* field replaced, and one reading with several violations and a timestamp
Nominal == Payload(IdStr("a-press"), Num(50), Num(15), Num(2), Num(15), "absent")

SanityCandidates(metric) ==
    IF metric = "temperature" THEN {Num(TempMin - 1), Num(TempMax + 1)} ELSE {Num(-1)}

\* a reading of asset a-zero with every metric on a bound of its envelope
OnBounds == Payload(IdStr("a-zero"), Num(0), Num(0), Num(5), Num(5), "absent")

Bodies ==
    {Nominal, OnBounds,
     [Nominal EXCEPT !.timestamp = ""],
     [Nominal EXCEPT !.timestamp = "2024-05-01T09:00:00Z"],
     Payload(IdStr("a-press"), Num(101), Num(9), Num(2), Num(22), "2024-05-01T10:00:00Z")}
    \cup {[Nominal EXCEPT !.asset_id = id] : id \in OddIds}
    \cup UNION {{[Nominal EXCEPT ![m] = x] :
                    x \in NumericCandidates(AssetById("a-press"), m)
                          \cup SanityCandidates(m) \cup OddValues} : m \in MetricSet}

\* variant: the arrival time is always taken
TimestampOf_alwaysNow(body) == "now"

\* reading.timestamp || new Date().toISOString()
TimestampOf(body) ==
    IF body.timestamp \in {"absent", ""} THEN "now" ELSE body.timestamp

\* the row handed to from('sensor_readings').insert
ReadingRow(body) == [body EXCEPT !.timestamp = TimestampOf(body)]

Logged(r, event) == [r EXCEPT !.log = Append(@, event)]

\* res.status(status).json(...): the response ends the invocation
Respond(r, status, text) ==
    [r EXCEPT !.pc = "done", !.status = status, !.text = text,
              !.log = Append(@, "respond")]

Arrived(handler, method, header) ==
    [IdleReq EXCEPT !.handler = handler, !.method = method, !.header = header]

\* a new invocation takes the first slot that holds no invocation in flight
Free(s) == req[s].pc \in {"idle", "done"}

CanArrive(s) ==
    /\ arrivals < (IF wide THEN MaxWideRequests ELSE MaxRequests)
    /\ Free(s)
    /\ \A t \in DOMAIN req : t < s => ~Free(t)

\* Spec: two invocations interleave, on a short list of payloads
FewBodies ==
    {Nominal,
     Payload(IdStr("a-press"), Num(101), Num(9), Num(2), Num(22), "2024-05-01T10:00:00Z"),
     Payload(IdStr("a-default"), Num(50), Num(15), Num(6), Num(15), "absent"),
     [Nominal EXCEPT !.temperature = Undefined],
     [Nominal EXCEPT !.temperature = Num(TempMax + 1)],
     [Nominal EXCEPT !.vibration = Num(-1)],
     [Nominal EXCEPT !.asset_id = IdStr("a-unknown")]}

\* the request bodies the clients of this run post
Payloads == IF wide THEN Bodies ELSE FewBodies

Init ==
    /\ StoresEmpty
    /\ req = [s \in Slots |-> IdleReq]
    /\ wide = FALSE
    /\ probe = ProbeOff
    /\ ui = UiOff

\* SpecWide: one invocation at a time, on every payload of Bodies
InitWide ==
    /\ StoresEmpty
    /\ req = [s \in {1} |-> IdleReq]
    /\ wide = TRUE
    /\ probe = ProbeOff
    /\ ui = UiOff

(***************************************************************************)
(* index.ts: app.post('/api/ingest-sensor')                                *)
(***************************************************************************)
\* variant: the catch block answers with the caught error's message
TsCaught_leaksDetail(r) == Respond(Logged(r, "threw"), 500, "err.message")

\* lines 150-152: catch (err) { res.status(500).json(...) }
TsCaught(r) == Respond(Logged(r, "threw"), 500, "Internal server error")

\* line 121: if (!token) return 401
TsMissingToken(r) == Respond(r, 401, "Missing Bearer token")

\* line 124: if (authError || !user) return 401
TsInvalidToken(r) == Respond(Logged(r, "rejected"), 401, "Invalid token")

\* variant: the validation result is not acted on
TsInvalidIgnored(r, errorMsg) == [r EXCEPT !.pc = "lookup"]

\* line 128: if (errorMsg) return 400
TsInvalid(r, errorMsg) ==
    Respond([Logged(r, "invalid") EXCEPT !.reason = errorMsg], 400, errorMsg)

\* variant: a failed lookup does not end the request
TsAssetNotFoundIgnored(r) == [Logged(r, "asset-missing") EXCEPT !.pc = "insert"]

\* line 136: if (assetError || !asset) return 404
TsAssetNotFound(r) == Respond(Logged(r, "asset-missing"), 404, "Asset not found")

\* variant: the alerts array is declared outside checkThresholdsAndCreateAlerts,
\* so the drafts of an invocation still awaiting its alerts insert are in it
TsEvaluate_sharedAlerts(r) ==
    LET pending == {t \in DOMAIN req : req[t].pc = "alerts"}
        shared == IF pending = {} THEN <<>>
                  ELSE req[CHOOSE t \in pending : TRUE].drafts
        drafts == shared \o DraftAlerts(r.body[1], r.asset[1])
        e == [Logged(r, "evaluated") EXCEPT !.drafts = drafts] IN
    IF Len(drafts) > 0 THEN [e EXCEPT !.pc = "alerts"]
    ELSE Respond(e, 200, "Sensor reading stored and alerts evaluated")

\* variant: each check() suspends before it pushes, so the array is still
\* empty when its length is tested
TsEvaluate_checksPending(r) ==
    Respond([Logged(r, "evaluated") EXCEPT !.drafts = <<>>],
            200, "Sensor reading stored and alerts evaluated")

\* lines 69-114 up to the await of the alerts insert, then line 149
TsEvaluate(r) ==
    LET drafts == DraftAlerts(r.body[1], r.asset[1])
        e == [Logged(r, "evaluated") EXCEPT !.drafts = drafts] IN
    IF Len(drafts) > 0 THEN [e EXCEPT !.pc = "alerts"]
    ELSE Respond(e, 200, "Sensor reading stored and alerts evaluated")

\* variant: the insert error is not thrown
TsInsertErrorSwallowed(r) == TsEvaluate(r)

\* line 145: if (insertError) throw insertError
TsInsertError(r) == TsCaught(r)

\* line 113: if (error) console.error(...), then line 149
TsAlertsError(r) == Respond(r, 200, "Sensor reading stored and alerts evaluated")

\* line 112 rejects: checkThresholdsAndCreateAlerts rejects, line 147 throws
TsAlertsThrew(r) == TsCaught(r)

\* lines 120-123: token extraction, up to the await of getUser
TsReceive(s) ==
    /\ CanArrive(s)
    /\ \E header \in HeaderSet :
          LET r == Arrived("express_ts", "POST", header)
              token == TokenOf(header) IN
          req' = [req EXCEPT ![s] =
                    IF token = "" THEN TsMissingToken(r)
                    ELSE [r EXCEPT !.pc = "verify", !.token = token]]
    /\ arrivals' = arrivals + 1
    /\ UNCHANGED <<sensor_readings, alerts, wide, probe, ui>>

\* lines 123-134: getUser returns; validation; up to the await of the asset
TsGetUser(s) ==
    /\ req[s].handler = "express_ts"
    /\ req[s].pc = "verify"
    /\ \E outcome \in GetUserOutcomes(req[s].token) :
          \/ /\ outcome = "throw"
             /\ req' = [req EXCEPT ![s] = TsCaught(@)]
          \/ /\ outcome = "error"
             /\ req' = [req EXCEPT ![s] = TsInvalidToken(@)]
          \/ /\ outcome = "user"
             /\ \E body \in Payloads :
                   LET r == [Logged(req[s], "authenticated") EXCEPT !.body = <<body>>]
                       errorMsg == validateSensorData(body) IN
                   req' = [req EXCEPT ![s] =
                             IF errorMsg # NoError THEN TsInvalid(r, errorMsg)
                             ELSE [Logged(r, "validated") EXCEPT !.pc = "lookup"]]
    /\ UNCHANGED <<sensor_readings, alerts, arrivals, wide, probe, ui>>

\* lines 130-143: the asset lookup returns; up to the await of the insert
TsAsset(s) ==
    /\ req[s].handler = "express_ts"
    /\ req[s].pc = "lookup"
    /\ \E outcome \in AssetOutcomes(req[s].body[1].asset_id.s) :
          \/ /\ outcome = "throw"
             /\ req' = [req EXCEPT ![s] = TsCaught(@)]
          \/ /\ outcome = "error"
             /\ req' = [req EXCEPT ![s] = TsAssetNotFound(@)]
          \/ /\ outcome = "row"
             /\ req' = [req EXCEPT ![s] =
                          [Logged(@, "asset") EXCEPT
                              !.pc = "insert",
                              !.asset = <<AssetById(req[s].body[1].asset_id.s)>>]]
    /\ UNCHANGED <<sensor_readings, alerts, arrivals, wide, probe, ui>>

\* variant: a reading equal to a stored row is not inserted again
TsInsert_upsert(s) ==
    /\ req[s].handler = "express_ts"
    /\ req[s].pc = "insert"
    /\ LET row == ReadingRow(req[s].body[1])
           known == {i \in 1..Len(sensor_readings) : sensor_readings[i] = row} IN
       /\ sensor_readings' = IF known = {} THEN Append(sensor_readings, row)
                             ELSE sensor_readings
       /\ req' = [req EXCEPT ![s] =
                    TsEvaluate([Logged(@, "reading-written") EXCEPT
                                   !.row = IF known = {} THEN Len(sensor_readings) + 1
                                           ELSE CHOOSE i \in known : TRUE])]
    /\ UNCHANGED <<alerts, arrivals, wide, probe, ui>>

\* lines 138-147: the reading insert returns
TsInsert(s) ==
    /\ req[s].handler = "express_ts"
    /\ req[s].pc = "insert"
    /\ \E outcome \in InsertOutcomes :
          \/ /\ outcome = "throw"
             /\ req' = [req EXCEPT ![s] = TsCaught(Logged(@, "reading-failed"))]
             /\ UNCHANGED sensor_readings
          \/ /\ outcome = "error"
             /\ req' = [req EXCEPT ![s] = TsInsertError(Logged(@, "reading-failed"))]
             /\ UNCHANGED sensor_readings
          \/ /\ outcome = "ok"
             /\ sensor_readings' = Append(sensor_readings, ReadingRow(req[s].body[1]))
             /\ req' = [req EXCEPT ![s] =
                          TsEvaluate([Logged(@, "reading-written") EXCEPT
                                         !.row = Len(sensor_readings) + 1])]
    /\ UNCHANGED <<alerts, arrivals, wide, probe, ui>>

\* variant: a new batch replaces the batches written before it
TsAlerts_supersedes(s) ==
    /\ req[s].handler = "express_ts"
    /\ req[s].pc = "alerts"
    /\ alerts' = <<req[s].drafts>>
    /\ req' = [req EXCEPT ![s] =
                 Respond([Logged(@, "alerts-written") EXCEPT !.batch = 1],
                         200, "Sensor reading stored and alerts evaluated")]
    /\ UNCHANGED <<sensor_readings, arrivals, wide, probe, ui>>

\* lines 112-113 and 149-152: the alerts insert returns
TsAlerts(s) ==
    /\ req[s].handler = "express_ts"
    /\ req[s].pc = "alerts"
    /\ \E outcome \in InsertOutcomes :
          \/ /\ outcome = "throw"
             /\ req' = [req EXCEPT ![s] = TsAlertsThrew(Logged(@, "alerts-failed"))]
             /\ UNCHANGED alerts
          \/ /\ outcome = "error"
             /\ req' = [req EXCEPT ![s] = TsAlertsError(Logged(@, "alerts-failed"))]
             /\ UNCHANGED alerts
          \/ /\ outcome = "ok"
             /\ alerts' = Append(alerts, req[s].drafts)
             /\ req' = [req EXCEPT ![s] =
                          Respond([Logged(@, "alerts-written") EXCEPT
                                      !.batch = Len(alerts) + 1],
                                  200, "Sensor reading stored and alerts evaluated")]
    /\ UNCHANGED <<sensor_readings, arrivals, wide, probe, ui>>

(***************************************************************************)
(* part_000: app.post('/api/ingest-sensor') of the JavaScript server.  The *)
(* getUser call is commented out (lines 61-65): no step awaits a verdict.  *)
(***************************************************************************)
\* lines 93-96: catch (error) { res.status(500).json(...) }
JsCaught(r) == Respond(Logged(r, "threw"), 500, "Internal server error")

\* lines 55-57: if (!authHeader?.startsWith('Bearer ')) return 401
JsBadHeader(r) == Respond(r, 401, "Missing or invalid Authorization header")

\* lines 70-72: if (validationError) return 400
JsInvalid(r, validationError) ==
    Respond([Logged(r, "invalid") EXCEPT !.reason = validationError],
            400, validationError)

\* lines 86-89: if (insertError) return 500
JsInsertError(r) == Respond(r, 500, "Failed to store sensor reading")

\* lines 54-84: header check and validation, up to the await of the insert
JsReceive(s) ==
    /\ CanArrive(s)
    /\ \E header \in HeaderSet :
          LET r == Arrived("express_js", "POST", header) IN
          \/ /\ ~StartsWithBearer(header)
             /\ req' = [req EXCEPT ![s] = JsBadHeader(r)]
          \/ /\ StartsWithBearer(header)
             /\ \E body \in Payloads :
                   LET b == [r EXCEPT !.token = TokenOf(header), !.body = <<body>>]
                       validationError == validateSensorData_js(body) IN
                   req' = [req EXCEPT ![s] =
                             IF validationError # NoError
                             THEN JsInvalid(b, validationError)
                             ELSE [Logged(b, "validated") EXCEPT !.pc = "insert"]]
    /\ arrivals' = arrivals + 1
    /\ UNCHANGED <<sensor_readings, alerts, wide, probe, ui>>

\* lines 75-96: the reading insert returns
JsInsert(s) ==
    /\ req[s].handler = "express_js"
    /\ req[s].pc = "insert"
    /\ \E outcome \in InsertOutcomes :
          \/ /\ outcome = "throw"
             /\ req' = [req EXCEPT ![s] = JsCaught(Logged(@, "reading-failed"))]
             /\ UNCHANGED sensor_readings
          \/ /\ outcome = "error"
             /\ req' = [req EXCEPT ![s] = JsInsertError(Logged(@, "reading-failed"))]
             /\ UNCHANGED sensor_readings
          \/ /\ outcome = "ok"
             /\ sensor_readings' = Append(sensor_readings, ReadingRow(req[s].body[1]))
             /\ req' = [req EXCEPT ![s] =
                          Respond([Logged(@, "reading-written") EXCEPT
                                      !.row = Len(sensor_readings) + 1],
                                  200, "Sensor reading stored successfully")]
    /\ UNCHANGED <<alerts, arrivals, wide, probe, ui>>

(***************************************************************************)
(* part_003: the Deno.serve handler of the edge function.                  *)
(***************************************************************************)
EdgeMethods == {"POST", "OPTIONS", "GET"}

\* lines 3-7, as the set of (name, value) pairs of a response's headers
corsHeaders ==
    {<<"Access-Control-Allow-Origin", "*">>,
     <<"Access-Control-Allow-Methods", "POST, OPTIONS">>,
     <<"Access-Control-Allow-Headers", "Content-Type, Authorization">>}

\* new Response(JSON.stringify(...), { status, headers: { ...corsHeaders,
\* 'Content-Type': 'application/json' } })
EdgeRespond(r, status, text) ==
    [Respond(r, status, text) EXCEPT
        !.headers = corsHeaders \cup {<<"Content-Type", "application/json">>}]

\* lines 146-154: catch (error) { return new Response(..., 500) }
EdgeCaught(r) == EdgeRespond(Logged(r, "threw"), 500, "Internal server error")

\* lines 57-62: the CORS preflight
EdgePreflight(r) == [Respond(r, 204, "") EXCEPT !.headers = corsHeaders]

\* variant: a method other than POST is handled like a POST
EdgeNotPost_fallsThrough(r) == [r EXCEPT !.pc = "verify", !.token = TokenOf(r.header)]

\* lines 66-74: if (req.method !== 'POST') return 405
EdgeNotPost(r) == EdgeRespond(r, 405, "Method not allowed")

\* lines 78-86: if (!authHeader?.startsWith('Bearer ')) return 401
EdgeBadHeader(r) == EdgeRespond(r, 401, "Missing or invalid Authorization header")

\* lines 92-100: if (authError || !user) return 401
EdgeInvalidToken(r) == EdgeRespond(Logged(r, "rejected"), 401, "Invalid token")

\* lines 105-113: if (validationError) return 400
EdgeInvalid(r, validationError) ==
    EdgeRespond([Logged(r, "invalid") EXCEPT !.reason = validationError],
                400, validationError)

\* lines 127-136: if (insertError) return 500
EdgeInsertError(r) == EdgeRespond(r, 500, "Failed to store sensor reading")

\* line 103: await req.json() rejects on a body that is no JSON; lines 146-154
EdgeBodyUnreadable(r) == EdgeCaught(r)

\* lines 57-91: preflight, method and header checks, up to the await of getUser
EdgeReceive(s) ==
    /\ CanArrive(s)
    /\ \E method \in EdgeMethods, header \in HeaderSet :
          LET r == Arrived("edge", method, header) IN
          req' = [req EXCEPT ![s] =
                    IF method = "OPTIONS" THEN EdgePreflight(r)
                    ELSE IF method # "POST" THEN EdgeNotPost(r)
                    ELSE IF ~StartsWithBearer(header) THEN EdgeBadHeader(r)
                    ELSE [r EXCEPT !.pc = "verify", !.token = TokenOf(header)]]
    /\ arrivals' = arrivals + 1
    /\ UNCHANGED <<sensor_readings, alerts, wide, probe, ui>>

\* lines 91-125: getUser returns; validation; up to the await of the insert
EdgeGetUser(s) ==
    /\ req[s].handler = "edge"
    /\ req[s].pc = "verify"
    /\ \E outcome \in GetUserOutcomes(req[s].token) :
          \/ /\ outcome = "throw"
             /\ req' = [req EXCEPT ![s] = EdgeCaught(@)]
          \/ /\ outcome = "error"
             /\ req' = [req EXCEPT ![s] = EdgeInvalidToken(@)]
          \/ /\ outcome = "user"
             /\ \/ req' = [req EXCEPT ![s] = EdgeBodyUnreadable(Logged(@, "authenticated"))]
                \/ \E body \in Payloads :
                      LET r == [Logged(req[s], "authenticated") EXCEPT !.body = <<body>>]
                          validationError == validateSensorData_edge(body) IN
                      req' = [req EXCEPT ![s] =
                                IF validationError # NoError
                                THEN EdgeInvalid(r, validationError)
                                ELSE [Logged(r, "validated") EXCEPT !.pc = "insert"]]
    /\ UNCHANGED <<sensor_readings, alerts, arrivals, wide, probe, ui>>

\* lines 116-155: the reading insert returns
EdgeInsert(s) ==
    /\ req[s].handler = "edge"
    /\ req[s].pc = "insert"
    /\ \E outcome \in InsertOutcomes :
          \/ /\ outcome = "throw"
             /\ req' = [req EXCEPT ![s] = EdgeCaught(Logged(@, "reading-failed"))]
             /\ UNCHANGED sensor_readings
          \/ /\ outcome = "error"
             /\ req' = [req EXCEPT ![s] = EdgeInsertError(Logged(@, "reading-failed"))]
             /\ UNCHANGED sensor_readings
          \/ /\ outcome = "ok"
             /\ sensor_readings' = Append(sensor_readings, ReadingRow(req[s].body[1]))
             /\ req' = [req EXCEPT ![s] =
                          EdgeRespond([Logged(@, "reading-written") EXCEPT
                                          !.row = Len(sensor_readings) + 1],
                                      200, "Sensor reading stored successfully")]
    /\ UNCHANGED <<alerts, arrivals, wide, probe, ui>>

Next ==
    \E s \in DOMAIN req :
        \/ TsReceive(s) \/ TsGetUser(s) \/ TsAsset(s) \/ TsInsert(s) \/ TsAlerts(s)
        \/ JsReceive(s) \/ JsInsert(s)
        \/ EdgeReceive(s) \/ EdgeGetUser(s) \/ EdgeInsert(s)

Spec == Init /\ [][Next]_vars

SpecWide == InitWide /\ [][Next]_vars

\* an awaited call of the invocation in slot s returns (result, error or throw)
Returns(s) ==
    \/ TsGetUser(s) \/ TsAsset(s) \/ TsInsert(s) \/ TsAlerts(s)
    \/ JsInsert(s)
    \/ EdgeGetUser(s) \/ EdgeInsert(s)

\* Spec, with every awaited call returning eventually
SpecLive == Init /\ [][Next]_vars /\ \A s \in Slots : WF_vars(Returns(s))

(***************************************************************************)
(* The browser application: App's routes, Layout, Navigation and the       *)
(* Config page.  The signed-in user is identified by the role the          *)
(* user_roles table holds for them.                                        *)
(***************************************************************************)
MaxEdits == 3      \* changes of the modal's inputs in one run of SpecConfig
MaxSaves == 1   \* saves the Config page starts in one run

Roles == {"admin", "engineer", "operator"}

\* App.tsx lines 18-27: "/" and the routes nested in the Layout route
LayoutPaths ==
    {"/", "/dashboard", "/config", "/alerts", "/maintenance", "/analytics",
     "/plants", "/users", "/settings"}

\* the locations a user enters or follows a link to; "/nowhere" matches no route
Paths == LayoutPaths \cup {"/login", "/signup", "/nowhere"}

\* App.tsx line 29: <Route path="*" element={<Navigate to="/login" replace />} />
Resolve(path) ==
    IF path \in LayoutPaths \cup {"/login", "/signup"} THEN path ELSE "/login"

\* the element a Layout child route renders
Outlet(path) ==
    CASE path = "/" -> "Navigate"
      [] path = "/dashboard" -> "Dashboard"
      [] path = "/config" -> "Config"
      [] path = "/alerts" -> "Alerts"
      [] path = "/maintenance" -> "Maintenance"
      [] path = "/analytics" -> "Analytics"
      [] path = "/plants" -> "Plants page coming soon"
      [] path = "/users" -> "Users page coming soon"
      [] path = "/settings" -> "Settings page coming soon"

\* variant: Layout renders its frame whenever loading has finished
Rendered_noSessionTest(u) ==
    IF u.path = "/login" THEN "Login"
    ELSE IF u.path = "/signup" THEN "SignUp"
    ELSE IF u.loading THEN "Loading..."
    ELSE Outlet(u.path)

\* what App renders at the current location: Layout (part_002 lines 17-36)
\* around the child route, or the Login / SignUp page
Rendered(u) ==
    IF u.path = "/login" THEN "Login"
    ELSE IF u.path = "/signup" THEN "SignUp"
    ELSE IF u.loading THEN "Loading..."
    ELSE IF u.session = "none" THEN "null"
    ELSE Outlet(u.path)

\* Navigation is mounted when Layout renders its full frame
NavigationMounted(u) == u.path \in LayoutPaths /\ ~u.loading /\ u.session # "none"

\* roleBasedNavItems[userRole]: the links of the sidebar
roleBasedNavItems(userRole) ==
    CASE userRole = "admin" ->
            {"/dashboard", "/plants", "/alerts", "/maintenance", "/users", "/settings"}
      [] userRole = "engineer" -> {"/dashboard", "/plants", "/alerts", "/maintenance"}
      [] userRole = "operator" -> {"/dashboard", "/plants", "/alerts"}

(***************************************************************************)
(* The asset form of the Config page: an asset row with its text fields.   *)
(***************************************************************************)
AssetForm(row, id, name, model, serial, date) ==
    [id |-> id, name |-> name, model |-> model, serial_number |-> serial,
     installation_date |-> date,
     temperature_min |-> Num(row.temperature_min),
     temperature_max |-> Num(row.temperature_max),
     pressure_min |-> Num(row.pressure_min), pressure_max |-> Num(row.pressure_max),
     vibration_min |-> Num(row.vibration_min), vibration_max |-> Num(row.vibration_max),
     energy_min |-> Num(row.energy_min), energy_max |-> Num(row.energy_max)]

\* createDefaultAsset(plantId): a temporary id, empty texts, today's date
NewAssetForm == AssetForm(createDefaultAsset, "tmp-uuid", "", "", "", "today")

\* the machines of the selected plant, as fetchAssets returns them
ListedAssets == {AssetForm(AssetById("a-press"), "a-press", "Press 1", "P-100",
                           "SN-1", "2024-01-01")}

\* s.trim()
Trim(s) == IF s = "   " THEN "" ELSE s

\* parseFloat(e.target.value) of a number input: <<n>> is the text of the
\* number n, <<>> the cleared input, which parses to NaN
parseFloat(text) == IF text = <<>> THEN NaN ELSE Num(text[1])

\* a change of the modal's inputs: the three texts filled in, one text or
\* the date cleared, the name blanked, one minimum cleared or put above its
\* maximum
FieldEdits(asset) ==
    {[asset EXCEPT !.name = "Press 2", !.model = "P-200", !.serial_number = "SN-2"]}
    \cup {[asset EXCEPT !.name = text] : text \in {"", "   "}}
    \cup {[asset EXCEPT !.model = ""], [asset EXCEPT !.serial_number = ""],
          [asset EXCEPT !.installation_date = ""]}
    \cup {[asset EXCEPT !.temperature_min = parseFloat(text)] :
              text \in {<<>>, <<asset.temperature_max.n + 1>>}}
    \cup {[asset EXCEPT !.pressure_min = parseFloat(<<asset.pressure_max.n + 1>>)],
          [asset EXCEPT !.vibration_min = parseFloat(<<asset.vibration_max.n + 1>>)],
          [asset EXCEPT !.energy_min = parseFloat(<<asset.energy_max.n + 1>>)]}

\* what the user types into the modal: the three texts, a blank name, a
\* temperature minimum above the maximum; in a wide run any field edit
FormEdits(asset) ==
    IF wide THEN FieldEdits(asset)
    ELSE {[asset EXCEPT !.name = "Press 2", !.model = "P-200", !.serial_number = "SN-2"],
          [asset EXCEPT !.name = "   "],
          [asset EXCEPT !.temperature_min = parseFloat(<<asset.temperature_max.n + 1>>)]}

\* variant: the energy range is not tested
validateForm_noEnergy(asset) ==
    {k \in {"name"} : Trim(asset.name) = ""}
    \cup {k \in {"model"} : Trim(asset.model) = ""}
    \cup {k \in {"serial_number"} : Trim(asset.serial_number) = ""}
    \cup {k \in {"installation_date"} : asset.installation_date = ""}
    \cup {k \in {"temperature"} : JsGt(asset.temperature_min, asset.temperature_max)}
    \cup {k \in {"pressure"} : JsGt(asset.pressure_min, asset.pressure_max)}
    \cup {k \in {"vibration"} : JsGt(asset.vibration_min, asset.vibration_max)}

\* validateForm: the keys of the errors object
validateForm(asset) ==
    {k \in {"name"} : Trim(asset.name) = ""}
    \cup {k \in {"model"} : Trim(asset.model) = ""}
    \cup {k \in {"serial_number"} : Trim(asset.serial_number) = ""}
    \cup {k \in {"installation_date"} : asset.installation_date = ""}
    \cup {k \in {"temperature"} : JsGt(asset.temperature_min, asset.temperature_max)}
    \cup {k \in {"pressure"} : JsGt(asset.pressure_min, asset.pressure_max)}
    \cup {k \in {"vibration"} : JsGt(asset.vibration_min, asset.vibration_max)}
    \cup {k \in {"energy"} : JsGt(asset.energy_min, asset.energy_max)}

\* the state of a Config component that has just mounted
ConfigMounted(u) ==
    [u EXCEPT !.selectedPlant = "", !.assets = {}, !.isModalOpen = FALSE,
              !.editingAsset = <<>>, !.formErrors = {},
              !.saving = [i \in 1..Len(u.saving) |-> [u.saving[i] EXCEPT !.live = FALSE]]]

\* the application once the location changed to path: the components that
\* are no longer rendered lose their state
At(u, path) ==
    LET v == [u EXCEPT !.path = path] IN
    LET w == IF NavigationMounted(v) THEN v ELSE [v EXCEPT !.userRole = "operator"] IN
    IF Rendered(w) = "Config" /\ Rendered(u) = "Config" THEN w ELSE ConfigMounted(w)

InitUi ==
    /\ StoresEmpty
    /\ req = <<>>
    /\ wide = FALSE
    /\ probe = ProbeOff
    /\ \E path \in Paths :
          ui = [stage |-> "on", loading |-> TRUE, session |-> "none", path |-> Resolve(path),
                 userRole |-> "operator", selectedPlant |-> "", assets |-> {},
                isModalOpen |-> FALSE, editingAsset |-> <<>>, formErrors |-> {},
                edits |-> 0, saves |-> 0, saving |-> <<>>, assetWrites |-> <<>>]

UiOnly == UNCHANGED <<sensor_readings, alerts, req, arrivals, wide, probe>>

\* useAuth(): the stored session has been looked up
AuthResolved ==
    /\ ui.loading
    /\ \E session \in Roles \cup {"none"} :
          ui' = At([ui EXCEPT !.loading = FALSE, !.session = session], ui.path)
    /\ UiOnly

\* useAuth(): a user has signed in
SignedIn ==
    /\ ~ui.loading
    /\ ui.session = "none"
    /\ \E role \in Roles : ui' = At([ui EXCEPT !.session = role], ui.path)
    /\ UiOnly

\* useAuth(): the session has ended
SignedOut ==
    /\ ~ui.loading
    /\ ui.session # "none"
    /\ ui' = At([ui EXCEPT !.session = "none"], ui.path)
    /\ UiOnly

\* the user follows a link of the sidebar or enters a location
GoTo ==
    /\ \E path \in Paths :
          /\ Resolve(path) # ui.path
          /\ ui' = At(ui, Resolve(path))
    /\ UiOnly

\* Layout lines 11-15: if (!loading && !session) navigate('/login')
LayoutRedirect ==
    /\ ui.path \in LayoutPaths
    /\ ~ui.loading
    /\ ui.session = "none"
    /\ ui' = At(ui, "/login")
    /\ UiOnly

\* App.tsx line 19: the index route navigates to /dashboard
IndexRedirect ==
    /\ Rendered(ui) = "Navigate"
    /\ ui' = At(ui, "/dashboard")
    /\ UiOnly

\* Navigation lines 75-94: getUserRole returns the user's role (an error
\* leaves userRole as it is)
RoleFetched ==
    /\ NavigationMounted(ui)
    /\ ui.userRole # ui.session
    /\ ui' = [ui EXCEPT !.userRole = ui.session]
    /\ UiOnly

(***************************************************************************)
(* config.tsx: the Config page.                                            *)
(***************************************************************************)
\* the modal is rendered: isModalOpen && editingAsset
ModalShown == Rendered(ui) = "Config" /\ ui.isModalOpen /\ ui.editingAsset # <<>>

\* line 152: onChange={(e) => setSelectedPlant(e.target.value)}
SelectPlant ==
    /\ Rendered(ui) = "Config"
    /\ \E plant \in {"", "plant-1"} :
          /\ plant # ui.selectedPlant
          /\ ui' = [ui EXCEPT !.selectedPlant = plant]
    /\ UiOnly

\* lines 58-71: fetchAssets(selectedPlant) returns the machines of the plant
\* (an error leaves assets as it is)
AssetsFetched ==
    /\ Rendered(ui) = "Config"
    /\ ui.selectedPlant # ""
    /\ ui.assets # {a.id : a \in ListedAssets}
    /\ ui' = [ui EXCEPT !.assets = {a.id : a \in ListedAssets}]
    /\ UiOnly

\* lines 169-172: Add Machine
OpenAdd ==
    /\ Rendered(ui) = "Config"
    /\ ui.selectedPlant # ""
    /\ ui' = [ui EXCEPT !.editingAsset = <<NewAssetForm>>, !.isModalOpen = TRUE]
    /\ ui' # ui
    /\ UiOnly

\* lines 192-195: Edit, on a machine of the list
OpenEdit ==
    /\ Rendered(ui) = "Config"
    /\ ui.selectedPlant # ""
    /\ \E asset \in ListedAssets :
          /\ asset.id \in ui.assets
          /\ ui' = [ui EXCEPT !.editingAsset = <<asset>>, !.isModalOpen = TRUE]
    /\ ui' # ui
    /\ UiOnly

\* lines 233-381: the onChange handlers of the modal's inputs
EditForm ==
    /\ ModalShown
    /\ wide => ui.edits < MaxEdits
    /\ \E asset \in FormEdits(ui.editingAsset[1]) :
          /\ asset # ui.editingAsset[1]
          /\ ui' = [ui EXCEPT !.editingAsset = <<asset>>,
                              !.edits = IF wide THEN @ + 1 ELSE @]
    /\ UiOnly

\* lines 218 and 395: the close button and Cancel
CloseModal ==
    /\ ModalShown
    /\ ui' = [ui EXCEPT !.isModalOpen = FALSE]
    /\ UiOnly

\* lines 107-127: handleSave(editingAsset), up to the await of the store call
handleSave ==
    /\ ModalShown
    /\ LET asset == ui.editingAsset[1]
           errors == validateForm(asset) IN
       /\ errors = {} => ui.saves < MaxSaves
       /\ ui' = IF errors # {} THEN [ui EXCEPT !.formErrors = errors]
                ELSE [ui EXCEPT
                        !.formErrors = errors,
                        !.saves = @ + 1,
                        !.saving = Append(@, [by |-> ui.session,
                                              op |-> IF asset.id \in ui.assets
                                                     THEN "update" ELSE "insert",
                                              asset |-> asset,
                                              live |-> TRUE])]
    /\ ui' # ui
    /\ UiOnly

\* lines 118-136: the update / insert returns
SaveReturned ==
    /\ ui.stage = "on"
    /\ \E i \in 1..Len(ui.saving), outcome \in {"ok", "error"} :
          LET save == ui.saving[i]
              rest == [ui EXCEPT !.saving = SubSeq(@, 1, i - 1)
                                            \o SubSeq(@, i + 1, Len(@))] IN
          ui' = IF outcome = "error" THEN rest
                ELSE LET written == [rest EXCEPT !.assetWrites = Append(@, save)] IN
                     IF save.live
                     THEN [written EXCEPT !.isModalOpen = FALSE, !.editingAsset = <<>>]
                     ELSE written
    /\ UiOnly

NextUi ==
    \/ AuthResolved \/ SignedIn \/ SignedOut
    \/ GoTo \/ LayoutRedirect \/ IndexRedirect \/ RoleFetched
    \/ SelectPlant \/ AssetsFetched \/ OpenAdd \/ OpenEdit \/ EditForm \/ CloseModal
    \/ handleSave \/ SaveReturned

SpecUi == InitUi /\ [][NextUi]_vars

(***************************************************************************)
(* SpecConfig: the Config page on its own, open for a signed-in            *)
(* administrator with a plant selected and its machines listed; the modal  *)
(* takes every field edit.                                                 *)
(***************************************************************************)
InitConfig ==
    /\ StoresEmpty
    /\ req = <<>>
    /\ wide = TRUE
    /\ probe = ProbeOff
    /\ ui = [stage |-> "on", loading |-> FALSE, session |-> "admin", path |-> "/config",
             userRole |-> "admin", selectedPlant |-> "plant-1",
             assets |-> {a.id : a \in ListedAssets},
             isModalOpen |-> FALSE, editingAsset |-> <<>>, formErrors |-> {},
             edits |-> 0, saves |-> 0, saving |-> <<>>, assetWrites |-> <<>>]

NextConfig ==
    \/ OpenAdd \/ OpenEdit \/ EditForm \/ CloseModal \/ handleSave \/ SaveReturned

SpecConfig == InitConfig /\ [][NextConfig]_vars

(***************************************************************************)
(* Properties.                                                             *)
(***************************************************************************)
Has(r, event) == \E i \in 1..Len(r.log) : r.log[i] = event

Stored(r) ==
    /\ r.row \in 1..Len(sensor_readings)
    /\ sensor_readings[r.row] = ReadingRow(r.body[1])

NoWrite(r) == r.row = 0 /\ r.batch = 0 /\ ~Has(r, "reading-written")

\* C1: when the reading write succeeded, a failure of the alert-store batch
\* write (an error returned or a fault thrown) leaves the response at 200 and
\* the stored reading stored.
C1_AlertFailureKeepsSuccess ==
    \A s \in DOMAIN req :
        (Has(req[s], "reading-written") /\ Has(req[s], "alerts-failed")) =>
            /\ req[s].pc = "done"
            /\ req[s].status = 200
            /\ Stored(req[s])

\* C2: when the reading-store write fails the request ends with 500, the
\* threshold evaluator has not run and the request wrote no alert.
C2_ReadingFailureIsFatal ==
    \A s \in DOMAIN req :
        Has(req[s], "reading-failed") =>
            /\ req[s].pc = "done"
            /\ req[s].status = 500
            /\ ~Has(req[s], "evaluated")
            /\ req[s].drafts = <<>>
            /\ NoWrite(req[s])
            /\ ~Has(req[s], "alerts-written")

C2_Witness ==
    \E s \in DOMAIN req :
        /\ req[s].handler = "express_ts"
        /\ Has(req[s], "reading-failed")
        /\ req[s].status = 500
        /\ Len(sensor_readings) = 0

Rank(event) ==
    CASE event = "authenticated" -> 1
      [] event = "validated" -> 2
      [] event = "asset" -> 3
      [] event = "reading-written" -> 4
      [] event = "evaluated" -> 5
      [] event = "alerts-written" -> 6
      [] event = "respond" -> 7
      [] OTHER -> 0

\* C3: in the Express/TypeScript handler the steps occur in the order
\* authenticate, validate, look up asset, persist reading, evaluate, persist
\* alerts, respond: a reading is written only after authentication, validation
\* and asset resolution, an alert only after the reading, the 200 only after
\* the reading write succeeded.
C3_StepOrder ==
    \A s \in DOMAIN req :
        LET r == req[s] IN
        r.handler = "express_ts" =>
            /\ \A i, j \in 1..Len(r.log) :
                  (i < j /\ Rank(r.log[i]) > 0 /\ Rank(r.log[j]) > 0)
                      => Rank(r.log[i]) < Rank(r.log[j])
            /\ Has(r, "validated") => Has(r, "authenticated")
            /\ Has(r, "asset") => Has(r, "validated")
            /\ Has(r, "reading-written") => Has(r, "asset")
            /\ Has(r, "evaluated") => Has(r, "reading-written")
            /\ Has(r, "alerts-written") => Has(r, "evaluated")
            /\ (r.row # 0) = Has(r, "reading-written")
            /\ r.row # 0 => Stored(r)
            /\ (r.batch # 0) = Has(r, "alerts-written")
            /\ r.batch # 0 => (r.batch \in 1..Len(alerts) /\ alerts[r.batch] = r.drafts)
            /\ r.status = 200 => (Has(r, "reading-written") /\ Has(r, "evaluated"))

C3_Witness ==
    \E s \in DOMAIN req :
        /\ req[s].handler = "express_ts"
        /\ req[s].status = 200
        /\ req[s].log = <<"authenticated", "validated", "asset", "reading-written",
                          "evaluated", "alerts-written", "respond">>

\* missing, non-numeric, NaN or infinite
BadMetric(v) == v.k \in {"undef", "str", "nan", "inf"}

\* the metric field a validation reason names
ReasonNames(reason, field) ==
    CASE field = "temperature" ->
            reason \in {"Invalid temperature", "Temperature out of bounds",
                        "Temperature must be between -50 and 150"}
      [] field = "pressure" ->
            reason \in {"Invalid pressure", "Pressure must be >= 0",
                        "Pressure must be non-negative"}
      [] field = "vibration" ->
            reason \in {"Invalid vibration", "Vibration must be >= 0",
                        "Vibration must be non-negative"}
      [] field = "energy_consumption" ->
            reason \in {"Invalid energy_consumption", "Energy must be >= 0",
                        "Energy consumption must be non-negative"}

\* C4: a reading in which a metric is missing, non-numeric, NaN or infinite
\* fails validation with a reason naming such a field, and the request writes
\* neither store.
C4_BadMetricRejected ==
    \A s \in DOMAIN req :
        LET r == req[s] IN
        (Len(r.body) = 1 /\ \E m \in MetricSet : BadMetric(r.body[1][m])) =>
            /\ r.body[1].asset_id.k = "str" =>
                  \E m \in MetricSet :
                      BadMetric(r.body[1][m]) /\ ReasonNames(r.reason, m)
            /\ r.reason # NoError
            /\ r.status = 400
            /\ NoWrite(r)

\* C5 (helpers): the ingestion sanity bounds
OutOfRange(b) ==
    \/ /\ IsNumber(b.temperature)
       /\ JsLt(b.temperature, Num(-50)) \/ JsGt(b.temperature, Num(150))
    \/ \E m \in {"pressure", "vibration", "energy_consumption"} :
          IsNumber(b[m]) /\ JsLt(b[m], Num(0))

InSanityBounds(row) ==
    /\ row.temperature.k = "num"
    /\ row.temperature.n >= -50
    /\ row.temperature.n <= 150
    /\ \A m \in {"pressure", "vibration", "energy_consumption"} :
          row[m].k \in {"num", "inf"} /\ row[m].n >= 0

\* C5: a reading with temperature outside [-50, 150] or a negative pressure,
\* vibration or energy_consumption is answered 400 and writes no store; every
\* persisted reading has temperature in [-50, 150] and the other metrics >= 0.
C5_RangeRejected ==
    /\ \A s \in DOMAIN req :
          LET r == req[s] IN
          (Len(r.body) = 1 /\ OutOfRange(r.body[1])) =>
              /\ r.reason # NoError
              /\ r.pc = "done"
              /\ r.status = 400
              /\ NoWrite(r)
    /\ \A i \in 1..Len(sensor_readings) : InSanityBounds(sensor_readings[i])

C5_Witness ==
    \E s \in DOMAIN req :
        /\ Len(req[s].body) = 1
        /\ req[s].body[1].vibration = Num(-1)
        /\ req[s].status = 400
        /\ req[s].reason \in {"Vibration must be >= 0", "Vibration must be non-negative"}

\* C6: in the Express/TypeScript handler an authenticated request with a valid
\* reading whose asset_id matches no asset, or whose asset lookup returns an
\* error, is answered 404 and writes no reading and no alert.
C6_UnknownAssetNotFound ==
    \A s \in DOMAIN req :
        LET r == req[s] IN
        r.handler = "express_ts" =>
            /\ Has(r, "asset-missing") =>
                  (r.pc = "done" /\ r.status = 404 /\ NoWrite(r))
            /\ (Has(r, "validated") /\ r.body[1].asset_id.s \notin AssetIds) =>
                  /\ NoWrite(r)
                  /\ r.pc = "done" => (r.status = 404 \/ Has(r, "threw"))
            /\ r.row # 0 => r.asset = <<AssetById(r.body[1].asset_id.s)>>

C6_Witness ==
    \E s \in DOMAIN req :
        /\ req[s].handler = "express_ts"
        /\ Has(req[s], "validated")
        /\ req[s].body[1].asset_id = IdStr("a-unknown")
        /\ req[s].status = 404

\* a header of the form 'Bearer <credential>'
WellFormedBearer(header) ==
    /\ Len(header) >= 2
    /\ header[1] = "Bearer"
    /\ \E i \in 2..Len(header) : header[i] # ""

\* C7: a POST whose Authorization header is absent or is no well-formed
\* 'Bearer <credential>' header is answered 401 (unless a fault is caught), is
\* never treated as authenticated and writes no store.
C7_MalformedHeaderRejected ==
    \A s \in DOMAIN req :
        LET r == req[s] IN
        (r.pc # "idle" /\ r.method = "POST" /\ ~WellFormedBearer(r.header)) =>
            /\ ~Has(r, "authenticated")
            /\ r.body = <<>>
            /\ NoWrite(r)
            /\ r.pc = "done" => (r.status = 401 \/ Has(r, "threw"))

\* C8: in every handler a request whose credential the Identity Verifier
\* rejects is answered 401, and a reading is stored only for a request whose
\* credential the Identity Verifier accepted.
C8_OnlyVerifiedStored ==
    \A s \in DOMAIN req :
        LET r == req[s] IN
        /\ Has(r, "rejected") => (r.pc = "done" /\ r.status = 401 /\ NoWrite(r))
        /\ r.row # 0 => Has(r, "authenticated")

(***************************************************************************)
(* The threshold evaluator on its own (SpecEval).                          *)
(***************************************************************************)
Evaluated == probe.stage = "evaluated"

AboveMax(m) == JsGt(probe.reading[m], Num(MaxOf(probe.asset, m)))

BelowMin(m) == ~AboveMax(m) /\ JsLt(probe.reading[m], Num(MinOf(probe.asset, m)))

WithinEnvelope(m) == ~AboveMax(m) /\ ~BelowMin(m)

DraftsOfType(type) == {i \in 1..Len(probe.drafts) : probe.drafts[i].type = type}

\* (value - max) / max * 100 > 10, in the arithmetic of the code's doubles:
\* a positive difference over max = 0 is +Infinity, over max < 0 is negative
HighOverTen(value, max) ==
    IF value.k = "inf" THEN max >= 0
    ELSE IF max > 0 THEN 100 * (value.n - max) > 10 * max
    ELSE max = 0

\* (min - value) / min * 100 > 10, likewise
LowOverTen(value, min) ==
    IF min > 0 THEN 100 * (min - value.n) > 10 * min ELSE min = 0

\* C9: for a validated reading, each metric above its max yields exactly one
\* alert "<metric>_high", critical when (value - max) / max * 100 > 10 and
\* medium otherwise; when exactly one metric is above max by more than 10% and
\* the others are within range, the drafts are exactly one alert, a critical one.
C9_HighAlerts ==
    Evaluated =>
        /\ \A m \in MetricSet :
              AboveMax(m) =>
                  /\ Cardinality(DraftsOfType(AlertType(Label(m), "high"))) = 1
                  /\ \A i \in DraftsOfType(AlertType(Label(m), "high")) :
                        probe.drafts[i].severity =
                            IF HighOverTen(probe.reading[m], MaxOf(probe.asset, m))
                            THEN "critical" ELSE "medium"
        /\ \A m \in MetricSet :
              ( /\ AboveMax(m)
                /\ HighOverTen(probe.reading[m], MaxOf(probe.asset, m))
                /\ \A o \in MetricSet \ {m} : WithinEnvelope(o) ) =>
                  /\ Len(probe.drafts) = 1
                  /\ probe.drafts[1].type = AlertType(Label(m), "high")
                  /\ probe.drafts[1].severity = "critical"

C9_Witness ==
    /\ Evaluated
    /\ probe.asset.id = "a-press"
    /\ probe.reading.temperature = Num(101)
    /\ \A o \in MetricSet \ {"temperature"} : WithinEnvelope(o)
    /\ Len(probe.drafts) = 1
    /\ probe.drafts[1].severity = "critical"

\* C10: for a validated reading, each metric not above its max and below its
\* min yields exactly one alert "<metric>_low", critical when
\* (min - value) / min * 100 > 10 and medium otherwise.
C10_LowAlerts ==
    Evaluated =>
        \A m \in MetricSet :
            BelowMin(m) =>
                /\ Cardinality(DraftsOfType(AlertType(Label(m), "low"))) = 1
                /\ \A i \in DraftsOfType(AlertType(Label(m), "low")) :
                      probe.drafts[i].severity =
                          IF LowOverTen(probe.reading[m], MinOf(probe.asset, m))
                          THEN "critical" ELSE "medium"

C10_Witness ==
    /\ Evaluated
    /\ probe.asset.id = "a-press"
    /\ probe.reading.temperature = Num(18)
    /\ probe.reading.energy_consumption = Num(8)
    /\ \E i, j \in 1..Len(probe.drafts) :
          /\ probe.drafts[i].type = "temperature_low"
          /\ probe.drafts[i].severity = "medium"
          /\ probe.drafts[j].type = "energy_low"
          /\ probe.drafts[j].severity = "critical"

(***************************************************************************)
(* The pipeline of index.ts on readings inside and outside the envelope.   *)
(***************************************************************************)
\* min <= value <= max for each of the four metrics
InEnvelope(body, asset) ==
    \A m \in MetricSet :
        /\ body[m].k = "num"
        /\ body[m].n >= MinOf(asset, m)
        /\ body[m].n <= MaxOf(asset, m)

\* C11: a valid reading whose four metrics all lie within the asset's
\* envelope, bounds included, drafts no alert and writes no alert batch; once
\* its reading write succeeded the reading is stored and the answer is 200,
\* and only a failed reading write keeps it from being stored.
C11_WithinEnvelopeNoAlerts ==
    \A s \in DOMAIN req :
        LET r == req[s] IN
        (r.handler = "express_ts" /\ Has(r, "asset")
            /\ InEnvelope(r.body[1], r.asset[1])) =>
            /\ r.pc # "alerts"
            /\ r.drafts = <<>>
            /\ r.batch = 0
            /\ ~Has(r, "alerts-written")
            /\ ~Has(r, "alerts-failed")
            /\ Has(r, "reading-written") =>
                  (r.pc = "done" /\ r.status = 200 /\ Stored(r))
            /\ r.pc = "done" => (Has(r, "reading-written") \/ Has(r, "reading-failed"))

C11_Witness ==
    \E s \in DOMAIN req :
        /\ req[s].handler = "express_ts"
        /\ req[s].body = <<OnBounds>>
        /\ req[s].status = 200
        /\ req[s].log = <<"authenticated", "validated", "asset", "reading-written",
                          "evaluated", "respond">>
        /\ Stored(req[s])
        /\ alerts = <<>>

\* the drafts of one evaluation that are about metric m
DraftsAbout(m) ==
    DraftsOfType(AlertType(Label(m), "high")) \cup DraftsOfType(AlertType(Label(m), "low"))

\* C12: for every validated reading and every envelope, also one with
\* min > max, the drafts of one evaluation hold at most one alert per metric,
\* never a high and a low alert of the same metric, and at most four alerts.
C12_OneAlertPerMetric ==
    Evaluated =>
        /\ \A m \in MetricSet : Cardinality(DraftsAbout(m)) <= 1
        /\ \A m \in MetricSet :
              DraftsOfType(AlertType(Label(m), "high")) = {}
                  \/ DraftsOfType(AlertType(Label(m), "low")) = {}
        /\ Len(probe.drafts) <= 4
        /\ \A i \in 1..Len(probe.drafts) :
              \E m \in MetricSet : i \in DraftsAbout(m)

\* a pressure between max = 10 and min = 20 of the misconfigured a-cold
C12_Witness ==
    /\ Evaluated
    /\ probe.asset.id = "a-cold"
    /\ probe.asset.pressure_min > probe.asset.pressure_max
    /\ probe.reading.pressure = Num(16)
    /\ Cardinality(DraftsAbout("pressure")) = 1
    /\ DraftsOfType("pressure_high") # {}

RowsEqual(row) == {i \in 1..Len(sensor_readings) : sensor_readings[i] = row}

BatchesEqual(batch) == {i \in 1..Len(alerts) : alerts[i] = batch}

\* C13: submissions are not deduplicated: the Reading Store holds one row per
\* successful submission of a reading, also of an equal one, and the Alert
\* Store one batch per written batch, also when an equal batch of active
\* alerts is already there.
C13_NoDeduplication ==
    \A s \in DOMAIN req :
        LET r == req[s] IN
        /\ Has(r, "reading-written") =>
              /\ Cardinality(RowsEqual(ReadingRow(r.body[1]))) >=
                    Cardinality({t \in DOMAIN req : /\ Has(req[t], "reading-written")
                                                    /\ req[t].body = r.body})
              /\ \A t \in DOMAIN req \ {s} :
                    Has(req[t], "reading-written") => req[t].row # r.row
        /\ Has(r, "alerts-written") =>
              /\ Cardinality(BatchesEqual(r.drafts)) >=
                    Cardinality({t \in DOMAIN req : /\ Has(req[t], "alerts-written")
                                                    /\ req[t].drafts = r.drafts})
              /\ \A t \in DOMAIN req \ {s} :
                    Has(req[t], "alerts-written") => req[t].batch # r.batch

\* the same violating reading submitted twice, both answered 200
C13_Witness ==
    /\ \A s \in DOMAIN req :
          /\ req[s].handler = "express_ts"
          /\ req[s].status = 200
          /\ Has(req[s], "alerts-written")
          /\ req[s].body[1].temperature = Num(101)
    /\ Len(sensor_readings) = 2
    /\ sensor_readings[1] = sensor_readings[2]
    /\ Len(alerts) = 2
    /\ alerts[1] = alerts[2]
    /\ Len(alerts[1]) = 3

(***************************************************************************)
(* The validator's rules in their stated order: 1 asset_id; 2..5 each      *)
(* metric present and a finite number; 6 temperature in [-50, 150];        *)
(* 7 pressure >= 0; 8 vibration >= 0; 9 energy_consumption >= 0.           *)
(***************************************************************************)
RuleFails(data, k) ==
    CASE k = 1 -> data.asset_id.k # "str" \/ data.asset_id.s = ""
      [] k \in 2..5 -> data[Metrics[k - 1]].k # "num"
      [] k = 6 -> \/ data.temperature.k # "num"
                  \/ data.temperature.n < -50
                  \/ data.temperature.n > 150
      [] k \in 7..9 -> \/ data[Metrics[k - 5]].k # "num"
                       \/ data[Metrics[k - 5]].n < 0

FailingRules(data) == {k \in 1..9 : RuleFails(data, k)}

FirstFailingRule(data) ==
    CHOOSE k \in FailingRules(data) : \A j \in FailingRules(data) : k <= j

\* the rule a reported reason belongs to
RuleOfReason(reason) ==
    CASE reason = "Invalid asset_id" -> 1
      [] reason = "Invalid temperature" -> 2
      [] reason = "Invalid pressure" -> 3
      [] reason = "Invalid vibration" -> 4
      [] reason = "Invalid energy_consumption" -> 5
      [] reason = "Temperature out of bounds" -> 6
      [] reason = "Pressure must be >= 0" -> 7
      [] reason = "Vibration must be >= 0" -> 8
      [] reason = "Energy must be >= 0" -> 9
      [] OTHER -> 0

\* C14: the reason the validator reports is that of the first failing rule in
\* the stated order, and a payload is accepted only when no rule fails.
C14_FirstFailingRuleReported ==
    probe.stage \in {"rejected", "valid", "evaluated"} =>
        IF FailingRules(probe.reading) = {}
        THEN probe.reason = NoError
        ELSE /\ probe.stage = "rejected"
             /\ RuleOfReason(probe.reason) = FirstFailingRule(probe.reading)

\* the response of the index.ts handler to a request processed alone, given
\* its header, its body and the outcomes of its own calls
AloneResponse(r) ==
    IF TokenOf(r.header) = "" THEN <<401, "Missing Bearer token">>
    ELSE IF Has(r, "threw") THEN <<500, "Internal server error">>
    ELSE IF Has(r, "rejected") THEN <<401, "Invalid token">>
    ELSE IF validateSensorData(r.body[1]) # NoError
         THEN <<400, validateSensorData(r.body[1])>>
    ELSE IF Has(r, "asset-missing") THEN <<404, "Asset not found">>
    ELSE <<200, "Sensor reading stored and alerts evaluated">>

\* C15: under every interleaving of the requests in flight, a request of the
\* index.ts handler is answered as it would be alone, the alerts it drafts
\* and the batch it writes are those of its own reading and asset, and the
\* row it stores is its own reading.
C15_RequestsIsolated ==
    \A s \in DOMAIN req :
        LET r == req[s] IN
        r.handler = "express_ts" =>
            /\ r.pc = "done" => <<r.status, r.text>> = AloneResponse(r)
            /\ Has(r, "evaluated") =>
                  /\ r.asset = <<AssetById(r.body[1].asset_id.s)>>
                  /\ r.drafts = DraftAlerts(r.body[1], AssetById(r.body[1].asset_id.s))
            /\ ~Has(r, "evaluated") => r.drafts = <<>>
            /\ \A i \in 1..Len(r.drafts) : r.drafts[i].asset_id = r.body[1].asset_id.s
            /\ r.batch # 0 => (r.batch \in 1..Len(alerts) /\ alerts[r.batch] = r.drafts)
            /\ r.row # 0 => Stored(r)

\* two requests interleaved: the first stores its reading first and writes
\* its alerts last
C15_Witness ==
    /\ \A s \in DOMAIN req : req[s].handler = "express_ts" /\ req[s].status = 200
    /\ req[1].body[1].asset_id = IdStr("a-press")
    /\ req[2].body[1].asset_id = IdStr("a-default")
    /\ req[1].row = 1
    /\ req[2].row = 2
    /\ req[1].batch = 2
    /\ req[2].batch = 1
    /\ Len(alerts[2]) = 3
    /\ Len(alerts[1]) = 1
    /\ alerts[1][1].type = "vibration_high"

ResponsesOf(r) == {i \in 1..Len(r.log) : r.log[i] = "respond"}

\* the fixed texts a handler answers a failure of its own processing with
GenericFailureTexts == {"Internal server error", "Failed to store sensor reading"}

AnsweredOnce(r) ==
    /\ Cardinality(ResponsesOf(r)) <= 1
    /\ (r.pc = "done") = (ResponsesOf(r) = {Len(r.log)})
    /\ Has(r, "threw") =>
          (r.pc = "done" /\ r.status = 500 /\ r.text = "Internal server error")
    /\ r.status = 500 => r.text \in GenericFailureTexts

C17_PreflightAndMethod ==
    \A s \in DOMAIN req :
        LET r == req[s] IN
        (r.handler = "edge" /\ r.method # "POST") =>
            /\ r.pc = "done"
            /\ r.log = <<"respond">>
            /\ r.token = ""
            /\ r.body = <<>>
            /\ NoWrite(r)
            /\ IF r.method = "OPTIONS"
               THEN /\ r.status = 204
                    /\ <<"Access-Control-Allow-Methods", "POST, OPTIONS">> \in r.headers
                    /\ <<"Access-Control-Allow-Headers", "Content-Type, Authorization">>
                          \in r.headers
               ELSE /\ r.status = 405
                    /\ r.text = "Method not allowed"

\* a preflight without credential, answered while a POST is in flight
C17_Witness ==
    /\ req[1].handler = "edge"
    /\ req[1].method = "POST"
    /\ req[1].pc = "verify"
    /\ req[2].handler = "edge"
    /\ req[2].method = "OPTIONS"
    /\ req[2].header = NoHeader
    /\ req[2].status = 204
    /\ req[2].headers = corsHeaders
    /\ sensor_readings = <<>>

\* the row of the Reading Store that request r wrote
RowOf(r) == sensor_readings[r.row]

\* asset_id and the four metrics are stored as posted
FieldsKept(r) ==
    \A f \in MetricSet \cup {"asset_id"} : RowOf(r)[f] = r.body[1][f]

\* C18 as stated: the stored timestamp is the one the request carries
\* whenever it carries one, and the arrival time only when it carries none;
\* asset_id and the four metrics are stored unchanged.
C18_TimestampAsSupplied ==
    \A s \in DOMAIN req :
        LET r == req[s] IN
        r.row # 0 =>
            /\ r.body[1].timestamp # "absent" => RowOf(r).timestamp = r.body[1].timestamp
            /\ RowOf(r).timestamp = "now" => r.body[1].timestamp = "absent"
            /\ FieldsKept(r)

\* C18, amended: the stored timestamp is the one the request carries when
\* that is a non-empty value, and the arrival time when the request carries
\* no timestamp or an empty one; asset_id and the four metrics are stored
\* unchanged.
C18_TimestampUnlessEmpty ==
    \A s \in DOMAIN req :
        LET r == req[s] IN
        r.row # 0 =>
            /\ r.body[1].timestamp \notin {"absent", ""} =>
                  RowOf(r).timestamp = r.body[1].timestamp
            /\ r.body[1].timestamp \in {"absent", ""} => RowOf(r).timestamp = "now"
            /\ FieldsKept(r)

\* the edge handler stores a reading posted with "timestamp": ""
C18_Witness ==
    \E s \in DOMAIN req :
        /\ req[s].handler = "edge"
        /\ req[s].status = 200
        /\ req[s].body[1].timestamp = ""
        /\ req[s].row = 1
        /\ sensor_readings[1].timestamp = "now"
        /\ sensor_readings[1].temperature = Num(50)

\* C20: for a validated reading of four finite metrics and any envelope, the
\* low-side exceedance (min - value) / min is never computed with min = 0, and
\* every draft has one of the two severities.
C20_NoDivisionByZero ==
    (Evaluated /\ \A m \in MetricSet : probe.reading[m].k = "num") =>
        /\ \A m \in MetricSet : ~(BelowMin(m) /\ MinOf(probe.asset, m) = 0)
        /\ \A i \in 1..Len(probe.drafts) :
              probe.drafts[i].severity \in {"critical", "medium"}

\* C19: the Config page is rendered only for a signed-in user whose role is
\* admin, and every asset save the page starts or completes is an admin's.
C19_ConfigAdminOnly ==
    /\ Rendered(ui) = "Config" => ui.session = "admin"
    /\ \A i \in 1..Len(ui.saving) : ui.saving[i].by = "admin"
    /\ \A i \in 1..Len(ui.assetWrites) : ui.assetWrites[i].by = "admin"

\* every alert of every batch in the Alert Store, as <<batch, position>>
WrittenAlerts == {<<b, i>> \in (1..Len(alerts)) \X (1..4) : i <= Len(alerts[b])}

\* C21: every alert in the Alert Store has status 'active', severity medium or
\* critical, and the asset_id of the reading whose request wrote it, a
\* reading that is in the Reading Store.
C21_AlertFields ==
    /\ \A w \in WrittenAlerts :
          LET a == alerts[w[1]][w[2]] IN
          /\ a.status = "active"
          /\ a.severity \in {"medium", "critical"}
          /\ \E j \in 1..Len(sensor_readings) : sensor_readings[j].asset_id = IdStr(a.asset_id)
    /\ \A s \in DOMAIN req :
          LET r == req[s] IN
          /\ \A i \in 1..Len(r.drafts) :
                /\ r.drafts[i].status = "active"
                /\ r.drafts[i].severity \in {"medium", "critical"}
                /\ IdStr(r.drafts[i].asset_id) = r.body[1].asset_id
          /\ r.batch # 0 =>
                \A i \in 1..Len(alerts[r.batch]) :
                    IdStr(alerts[r.batch][i].asset_id) = sensor_readings[r.row].asset_id

\* a batch with a critical and two medium alerts of asset a-press is written
C21_Witness ==
    \E s \in DOMAIN req :
        /\ req[s].batch # 0
        /\ req[s].body[1].asset_id = IdStr("a-press")
        /\ {alerts[req[s].batch][i].severity : i \in 1..3} = {"medium", "critical"}
        /\ \A i \in 1..3 : alerts[req[s].batch][i].asset_id = "a-press"

\* the place of an alert type's metric in the order temperature, pressure,
\* vibration, energy
MetricPlace(type) ==
    CASE type \in {"temperature_high", "temperature_low"} -> 1
      [] type \in {"pressure_high", "pressure_low"} -> 2
      [] type \in {"vibration_high", "vibration_low"} -> 3
      [] type \in {"energy_high", "energy_low"} -> 4

\* C22: the drafts of one evaluation are in the order temperature, pressure,
\* vibration, energy: of two drafts the earlier one is about the earlier metric.
C22_DraftOrder ==
    Evaluated =>
        \A i, j \in 1..Len(probe.drafts) :
            i < j => MetricPlace(probe.drafts[i].type) < MetricPlace(probe.drafts[j].type)

\* all four metrics of a reading violate the envelope of a-press
C22_Witness ==
    /\ Evaluated
    /\ probe.asset.id = "a-press"
    /\ Len(probe.drafts) = 4
    /\ [i \in 1..4 |-> probe.drafts[i].type] =
          <<"temperature_low", "pressure_high", "vibration_high", "energy_low">>

IsPrefix(a, b) == Len(a) <= Len(b) /\ \A i \in 1..Len(a) : a[i] = b[i]

\* C23: every step of the ingestion handlers leaves each row of the Reading
\* Store and each batch of the Alert Store in place and unchanged, and adds
\* at most one row or one batch.
C23_AppendOnly ==
    [][ /\ IsPrefix(sensor_readings, sensor_readings')
        /\ IsPrefix(alerts, alerts')
        /\ Len(sensor_readings') + Len(alerts') <= Len(sensor_readings) + Len(alerts) + 1
      ]_vars

\* a second reading and a second batch were added behind the first ones
C23_Witness ==
    /\ Len(sensor_readings) = 2
    /\ Len(alerts) = 2
    /\ sensor_readings[1].asset_id = IdStr("a-default")
    /\ sensor_readings[2].asset_id = IdStr("a-press")
    /\ alerts[1][1].asset_id = "a-press"
    /\ alerts[2][1].asset_id = "a-default"

\* the value lies more than 10% of |bound| beyond the bound, dist being the
\* positive distance between the two
BeyondTenPercent(dist, bound) == 100 * dist > 10 * Abs(bound)

\* C24: for a validated reading of four finite metrics and a metric whose
\* min is not above its max, a value above a non-zero max, or below a
\* non-zero min, gives an alert that is critical exactly when the value lies
\* more than 10% of the bound's absolute value beyond the bound, and medium
\* otherwise.
C24_SeverityByMagnitude ==
    (Evaluated /\ \A m \in MetricSet : probe.reading[m].k = "num") =>
        \A m \in MetricSet :
            LET v == probe.reading[m].n
                max == MaxOf(probe.asset, m)
                min == MinOf(probe.asset, m)
            IN  min <= max =>
                /\ (v > max /\ max # 0) =>
                      \A i \in DraftsOfType(AlertType(Label(m), "high")) :
                          probe.drafts[i].severity =
                              IF BeyondTenPercent(v - max, max)
                              THEN "critical" ELSE "medium"
                /\ (v < min /\ min # 0) =>
                      \A i \in DraftsOfType(AlertType(Label(m), "low")) :
                          probe.drafts[i].severity =
                              IF BeyondTenPercent(min - v, min)
                              THEN "critical" ELSE "medium"

\* the metrics of a body that lie outside the asset's envelope
Violating(body, asset) ==
    {m \in MetricSet :
        \/ body[m].k = "inf"
        \/ body[m].k = "num" /\ (body[m].n > MaxOf(asset, m) \/ body[m].n < MinOf(asset, m))}

\* C25: when checkThresholdsAndCreateAlerts tests alerts.length, the four
\* checks have all pushed: the drafts hold one alert for each metric outside
\* the envelope and nothing else, a non-empty set of violations leads to the
\* alerts insert, and the batch written is that whole list.
C25_BatchComplete ==
    \A s \in DOMAIN req :
        LET r == req[s] IN
        (r.handler = "express_ts" /\ Has(r, "evaluated")) =>
            LET viol == Violating(r.body[1], r.asset[1]) IN
            /\ Len(r.drafts) = Cardinality(viol)
            /\ \A m \in viol : \E i \in 1..Len(r.drafts) :
                  r.drafts[i].type \in {AlertType(Label(m), "high"),
                                        AlertType(Label(m), "low")}
            /\ viol # {} =>
                  \/ r.pc = "alerts"
                  \/ Has(r, "alerts-written")
                  \/ Has(r, "alerts-failed")
            /\ r.batch # 0 => Len(alerts[r.batch]) = Cardinality(viol)

\* a reading with three metrics outside the envelope wrote a batch of three
C25_Witness ==
    \E s \in DOMAIN req :
        /\ req[s].handler = "express_ts"
        /\ Has(req[s], "alerts-written")
        /\ Cardinality(Violating(req[s].body[1], req[s].asset[1])) = 3
        /\ Len(alerts[req[s].batch]) = 3

\* the rule a reason belongs to, in the wording of any of the three handlers;
\* 0 for an accepted payload
RuleNamed(reason) ==
    CASE reason = NoError -> 0
      [] reason = "Invalid asset_id" -> 1
      [] reason = "Invalid temperature" -> 2
      [] reason = "Invalid pressure" -> 3
      [] reason = "Invalid vibration" -> 4
      [] reason = "Invalid energy_consumption" -> 5
      [] reason \in {"Temperature out of bounds",
                     "Temperature must be between -50 and 150"} -> 6
      [] reason \in {"Pressure must be >= 0", "Pressure must be non-negative"} -> 7
      [] reason \in {"Vibration must be >= 0", "Vibration must be non-negative"} -> 8
      [] reason \in {"Energy must be >= 0",
                     "Energy consumption must be non-negative"} -> 9

\* C26: on every payload a handler validated, the validators of the three
\* handlers agree on acceptance and on the rule that fails, and the handler
\* answered by that decision: 400 with its own wording of the rule, or on.
C26_ValidatorsAgree ==
    \A s \in DOMAIN req :
        LET r == req[s] IN
        (Has(r, "validated") \/ Has(r, "invalid")) =>
            LET own == IF Has(r, "invalid") THEN RuleNamed(r.reason) ELSE 0
                b == r.body[1] IN
            /\ own = RuleNamed(validateSensorData(b))
            /\ own = RuleNamed(validateSensorData_js(b))
            /\ own = RuleNamed(validateSensorData_edge(b))
            /\ Has(r, "invalid") => (own # 0 /\ r.status = 400 /\ r.text = r.reason)

\* the edge function rejected a payload by the vibration rule, which the
\* Express handler words differently
C26_Witness ==
    /\ req[1].handler = "edge"
    /\ Has(req[1], "invalid")
    /\ req[1].reason = "Vibration must be non-negative"
    /\ validateSensorData(req[1].body[1]) = "Vibration must be >= 0"

ProtectedPages == {"Dashboard", "Config", "Alerts", "Maintenance", "Analytics"}

\* C27: at a location of the Layout route, while the session is loading only
\* the loading placeholder is rendered; once loading has finished without a
\* session no protected page is rendered (Layout renders nothing) and the
\* navigation to /login is due.
C27_NoPageWithoutSession ==
    ui.path \in LayoutPaths =>
        /\ ui.loading => Rendered(ui) = "Loading..."
        /\ (~ui.loading /\ ui.session = "none") =>
              /\ Rendered(ui) \notin ProtectedPages
              /\ Rendered(ui) = "null"
              /\ ENABLED LayoutRedirect
              /\ At(ui, "/login").path = "/login"

\* the session ended while the Config page was open with its modal: the
\* page is gone and the redirect has not happened yet
C27_Witness ==
    /\ ui.stage = "on"
    /\ ui.path = "/config"
    /\ ~ui.loading
    /\ ui.session = "none"
    /\ ui.saves = 1
    /\ Rendered(ui) = "null"

(***************************************************************************)
(* alerts.tsx: the Alerts page over the Alert Store (SpecAlerts).  The     *)
(* store holds the batch one reading of a-press wrote.  A stored alert is  *)
(* named by its batch and its place in the batch.  The page's severity and *)
(* status filters are modelled; the plant filter narrows the joined asset  *)
(* in the same query and is left out.                                      *)
(***************************************************************************)
MaxClicks == 2          \* Acknowledge / Resolve clicks in one run
MaxFilterChanges == 2   \* filter selections in one run

AlertsReading ==
    Payload(IdStr("a-press"), Num(101), Num(15), Num(2), Num(22), "absent")

\* the options of the two selects the user picks from
SeverityOptions == {"", "critical"}
StatusOptions == {"", "active"}

\* lines 61-85: the rows the query selects under the given filters
AlertRows(store, severity, status) ==
    {[id |-> w, severity |-> store[w[1]][w[2]].severity,
      status |-> store[w[1]][w[2]].status] :
        w \in {x \in (1..Len(store)) \X (1..4) :
                 /\ x[2] <= Len(store[x[1]])
                 /\ severity \in {"", store[x[1]][x[2]].severity}
                 /\ status \in {"", store[x[1]][x[2]].status}}}

\* a call of fetchAlerts from a render with the given filters, awaiting its query
FetchCall(severity, status) ==
    [severity |-> severity, status |-> status, served |-> FALSE, data |-> {}]

\* lines 35-38 and 40-42: both effects run on mount, each calls fetchAlerts
InitAlerts ==
    /\ sensor_readings = <<ReadingRow(AlertsReading)>>
    /\ alerts = <<DraftAlerts(AlertsReading, AssetById("a-press"))>>
    /\ arrivals = 0
    /\ req = <<>>
    /\ wide = FALSE
    /\ probe = ProbeOff
    /\ ui = [stage |-> "alerts", alerts |-> {}, loading |-> TRUE, error |-> FALSE,
             selectedSeverity |-> "", selectedStatus |-> "",
             fetching |-> SetToBag({FetchCall("", "")}) (+) SetToBag({FetchCall("", "")}),
             updating |-> EmptyBag, clicks |-> 0, changes |-> 0]

AlertsOnly == UNCHANGED <<sensor_readings, req, arrivals, wide, probe>>

\* the filter selects are rendered unless the page shows its error
FiltersShown == ui.stage = "alerts" /\ ~ui.error

\* lines 210-270: the list is rendered, with its buttons
ListShown == ui.stage = "alerts" /\ ~ui.error /\ ~ui.loading

\* lines 189 and 200, then the effect of lines 40-42: a select changes and
\* fetchAlerts runs with the new filters up to the await of its query
SelectFilter ==
    /\ FiltersShown
    /\ ui.changes < MaxFilterChanges
    /\ \E severity \in SeverityOptions, status \in StatusOptions :
          /\ (severity = ui.selectedSeverity) # (status = ui.selectedStatus)
          /\ ui' = [ui EXCEPT !.selectedSeverity = severity,
                              !.selectedStatus = status,
                              !.changes = @ + 1,
                              !.loading = TRUE,
                              !.fetching = @ (+) SetToBag({FetchCall(severity, status)})]
    /\ UNCHANGED alerts
    /\ AlertsOnly

\* the store evaluates the query of one pending fetchAlerts call
AlertsQueried ==
    /\ ui.stage = "alerts"
    /\ \E f \in BagToSet(ui.fetching) :
          /\ ~f.served
          /\ ui' = [ui EXCEPT !.fetching =
                       (@ (-) SetToBag({f}))
                       (+) SetToBag({[f EXCEPT !.served = TRUE,
                                               !.data = AlertRows(alerts, f.severity,
                                                                  f.status)]})]
    /\ UNCHANGED alerts
    /\ AlertsOnly

\* lines 85-94: the response of one fetchAlerts call arrives, whichever
\* call it belongs to
fetchAlerts ==
    /\ ui.stage = "alerts"
    /\ \E f \in BagToSet(ui.fetching) :
          \/ /\ f.served
             /\ ui' = [ui EXCEPT !.alerts = f.data, !.loading = FALSE,
                                 !.fetching = @ (-) SetToBag({f})]
          \/ /\ ~f.served
             /\ ui' = [ui EXCEPT !.error = TRUE, !.loading = FALSE,
                                 !.fetching = @ (-) SetToBag({f})]
    /\ UNCHANGED alerts
    /\ AlertsOnly

\* an update call of a button of the list, awaiting the store; it keeps the
\* filters of the render the button belongs to
UpdateCall(id, status) ==
    [id |-> id, status |-> status,
     severity |-> ui.selectedSeverity, filter |-> ui.selectedStatus]

\* lines 252-258 and 97-101: Acknowledge, on a listed alert shown as active
handleAcknowledge ==
    /\ ListShown
    /\ ui.clicks < MaxClicks
    /\ \E row \in ui.alerts :
          /\ row.status = "active"
          /\ ui' = [ui EXCEPT !.clicks = @ + 1,
                              !.updating = @ (+) SetToBag({UpdateCall(row.id,
                                                             "acknowledged")})]
    /\ UNCHANGED alerts
    /\ AlertsOnly

\* lines 252-264 and 111-119: Resolve, on a listed alert shown as active
handleResolve ==
    /\ ListShown
    /\ ui.clicks < MaxClicks
    /\ \E row \in ui.alerts :
          /\ row.status = "active"
          /\ ui' = [ui EXCEPT !.clicks = @ + 1,
                              !.updating = @ (+) SetToBag({UpdateCall(row.id,
                                                             "resolved")})]
    /\ UNCHANGED alerts
    /\ AlertsOnly

\* update({status}).eq('id', alertId) on the store: the row of that id
StatusWritten(store, id, status) ==
    [store EXCEPT ![id[1]][id[2]].status = status]

\* lines 103-108 and 121-126: an update returns; without an error the
\* handler calls the fetchAlerts of its render
StatusUpdated ==
    /\ ui.stage = "alerts"
    /\ \E u \in BagToSet(ui.updating) :
          \/ /\ alerts' = StatusWritten(alerts, u.id, u.status)
             /\ ui' = [ui EXCEPT !.updating = @ (-) SetToBag({u}),
                                 !.loading = TRUE,
                                 !.fetching = @ (+) SetToBag({FetchCall(u.severity,
                                                                       u.filter)})]
          \/ /\ UNCHANGED alerts
             /\ ui' = [ui EXCEPT !.updating = @ (-) SetToBag({u})]
    /\ AlertsOnly

NextAlerts ==
    \/ SelectFilter
    \/ AlertsQueried
    \/ fetchAlerts
    \/ handleAcknowledge
    \/ handleResolve
    \/ StatusUpdated

SpecAlerts == InitAlerts /\ [][NextAlerts]_vars

\* the stored alerts, as <<batch, place>>
StoredAlertIds == {x \in (1..Len(alerts)) \X (1..4) : x[2] <= Len(alerts[x[1]])}

\* C28: a step of the Alerts page changes the status of a stored alert only
\* from active, to acknowledged or resolved: an acknowledged or resolved
\* alert is never modified, and none becomes active again.
C28_OnlyActiveAlertsChange ==
    [][ \A x \in StoredAlertIds :
           alerts'[x[1]][x[2]].status # alerts[x[1]][x[2]].status =>
               /\ alerts[x[1]][x[2]].status = "active"
               /\ alerts'[x[1]][x[2]].status \in {"acknowledged", "resolved"}
      ]_vars

\* C29: once a filter was changed and every fetch and update has returned
\* without an error, the list shown is the store's answer to the filters
\* now selected.
C29_LatestFiltersShown ==
    ( /\ ui.changes > 0
      /\ ~ui.error
      /\ ui.fetching = EmptyBag
      /\ ui.updating = EmptyBag ) =>
        ui.alerts = AlertRows(alerts, ui.selectedSeverity, ui.selectedStatus)

\* the assets of the writes the Config page has sent or completed
SavedAssets ==
    {ui.saving[i].asset : i \in 1..Len(ui.saving)}
    \cup {ui.assetWrites[i].asset : i \in 1..Len(ui.assetWrites)}

\* min is a number above the number max
MinAboveMax(min, max) == min.k = "num" /\ max.k = "num" /\ min.n > max.n

\* C30: every asset the Config page writes has a name, model and serial
\* number that are not blank, an installation date, and no range whose min
\* is above its max; and a save whose validation fails sends nothing and
\* leaves the modal open on the same form.
C30_OnlyValidAssetsWritten ==
    /\ [](\A a \in SavedAssets :
            /\ a.name \notin {"", "   "}
            /\ a.model # ""
            /\ a.serial_number # ""
            /\ a.installation_date # ""
            /\ ~MinAboveMax(a.temperature_min, a.temperature_max)
            /\ ~MinAboveMax(a.pressure_min, a.pressure_max)
            /\ ~MinAboveMax(a.vibration_min, a.vibration_max)
            /\ ~MinAboveMax(a.energy_min, a.energy_max))
    /\ [][ (ui'.formErrors # {} /\ ui'.formErrors # ui.formErrors) =>
              /\ ui'.saving = ui.saving
              /\ ui'.assetWrites = ui.assetWrites
              /\ ui'.isModalOpen
              /\ ui'.editingAsset = ui.editingAsset
         ]_vars

\* a machine was updated; then the form of a new machine, its energy
\* minimum above the maximum, was refused and is still open
C30_Witness ==
    /\ Len(ui.assetWrites) = 1
    /\ ui.assetWrites[1].op = "update"
    /\ ui.saving = <<>>
    /\ ModalShown
    /\ ui.editingAsset[1].id = "tmp-uuid"
    /\ ui.formErrors = {"energy"}
    /\ MinAboveMax(ui.editingAsset[1].energy_min, ui.editingAsset[1].energy_max)

====
